---- MODULE Spec2Model ----
(***************************************************************************)
(* A model of fetch-utils.js: the resolution of a data filename into a     *)
(* response by fetchData, with the Treeherder job lookup of                *)
(* findTimingsJobsForRevision, the CI index fetch of fetchFromCI and the   *)
(* local ./data/ fetch.                                                    *)
(*                                                                         *)
(* JavaScript strings are TLA+ strings; match, startsWith, endsWith,       *)
(* replace and the template literals are computed on their characters      *)
(* with Len, SubSeq and \o.  A request is one step when it is issued and   *)
(* another when it completes; the code that runs between two awaits is     *)
(* part of the completing step.                                            *)
(***************************************************************************)
EXTENDS Integers, Sequences, FiniteSets, TLC

\* ------------------------------------------------------------------ bounds
\* Longest chain of job-listing pages the server delivers.
MaxPages == 2
\* Largest number of job rows the server delivers over all pages of a call.
MaxJobs == 2

\* ------------------------------------------------- program constants
\* {40} in the try-revision pattern.
RevLen == 40
\* status of the synthetic response.
NotFoundStatus == 404

\* --------------------------------------------------- JavaScript values
Null == "<null>"
Undefined == "<undefined>"

\* The truthiness of a string-or-absent value: null, undefined and "" are
\* falsy.
Truthy(v) == v \notin {Null, Undefined, ""}

StartsWith(s, p) ==
    Len(s) >= Len(p) /\ SubSeq(s, 1, Len(p)) = p

EndsWith(s, p) ==
    Len(s) >= Len(p) /\ SubSeq(s, Len(s) - Len(p) + 1, Len(s)) = p

\* Array.prototype.indexOf: the first 0-based position of x, or -1.
IndexOf(arr, x) ==
    IF \E i \in 1..Len(arr) : arr[i] = x
    THEN (CHOOSE i \in 1..Len(arr) :
             arr[i] = x /\ \A j \in 1..(i - 1) : arr[j] # x) - 1
    ELSE -1

\* arr[i] of JavaScript, 0-based: undefined outside the array.
At(arr, i) ==
    IF i >= 0 /\ i < Len(arr) THEN arr[i + 1] ELSE Undefined

\* String.prototype.replace(pat, rep) with a string pattern: the first
\* occurrence only; the string itself when there is none.
Replace(s, pat, rep) ==
    LET occ == {i \in 1..(Len(s) - Len(pat) + 1) :
                   SubSeq(s, i, i + Len(pat) - 1) = pat}
    IN  IF occ = {} THEN s
        ELSE LET i == CHOOSE k \in occ : \A m \in occ : k <= m
             IN  SubSeq(s, 1, i - 1) \o rep \o SubSeq(s, i + Len(pat), Len(s))

NoMatch == [matched |-> FALSE]

\* [a-f0-9]
HexChars == {"a","b","c","d","e","f","0","1","2","3","4","5","6","7","8","9"}

Harnesses == {"xpcshell", "mochitest"}

\* TryMatch with the {40} of the pattern read as +: a revision of any
\* length.
TryMatch_AnyLength(f) ==
    LET ms == {h \in Harnesses :
                 LET pre == h \o "-try-"
                 IN  /\ Len(f) > Len(pre) + Len(".json")
                     /\ SubSeq(f, 1, Len(pre)) = pre
                     /\ \A i \in (Len(pre) + 1)..(Len(f) - Len(".json")) :
                            SubSeq(f, i, i) \in HexChars
                     /\ SubSeq(f, Len(f) - Len(".json") + 1, Len(f)) = ".json"}
    IN  IF ms = {} THEN [matched |-> FALSE]
        ELSE LET h == CHOOSE x \in ms : TRUE
             IN  [matched |-> TRUE,
                  requestedHarness |-> h,
                  revision |-> SubSeq(f, Len(h \o "-try-") + 1,
                                      Len(f) - Len(".json"))]

\* filename.match(/^(xpcshell|mochitest)-try-([a-f0-9]{40})\.json$/):
\* the captured groups, or NoMatch (null) when the filename does not match.
TryMatch(f) ==
    LET ms == {h \in Harnesses :
                 LET pre == h \o "-try-"
                 IN  /\ Len(f) = Len(pre) + RevLen + Len(".json")
                     /\ SubSeq(f, 1, Len(pre)) = pre
                     /\ \A i \in (Len(pre) + 1)..(Len(pre) + RevLen) :
                            SubSeq(f, i, i) \in HexChars
                     /\ SubSeq(f, Len(pre) + RevLen + 1, Len(f)) = ".json"}
    IN  IF ms = {} THEN NoMatch
        ELSE LET h == CHOOSE x \in ms : TRUE
             IN  [matched |-> TRUE,
                  requestedHarness |-> h,
                  revision |-> SubSeq(f, Len(h \o "-try-") + 1,
                                      Len(h \o "-try-") + RevLen)]

\* new URLSearchParams(search).get(name), for a query string of at most one
\* parameter: the value after "?name=", null when the parameter is absent.
SearchParam(search, name) ==
    IF StartsWith(search, "?" \o name \o "=")
    THEN SubSeq(search, Len(name) + 3, Len(search))
    ELSE Null

\* getHarnessType without its default: the value of kind as it is.
getHarnessType_NoDefault(search) == SearchParam(search, "kind")

\* getHarnessType()
getHarnessType(search) ==
    LET k == SearchParam(search, "kind")
    IN  IF Truthy(k) THEN k ELSE "xpcshell"

\* The filenames for which fetchData calls getHarnessType, which reads
\* window.location.search.
ReadsSearch(f) == ~StartsWith(f, "mochitest-") /\ f = "index.json"

\* DetectHarness taking the harness from the kind parameter for every
\* filename.
DetectHarness_ParamOnly(f, search) == getHarnessType(search)

\* The harness fetchData picks for a filename that is not a try revision.
DetectHarness(f, search) ==
    IF StartsWith(f, "mochitest-") THEN "mochitest"
    ELSE IF f = "index.json" THEN getHarnessType(search)
    ELSE "xpcshell"

\* ---------------------------------------------------------------- URLs
TreeherderPush ==
    "https://treeherder.mozilla.org/api/project/try/push/?full=true&count=10&revision="
TreeherderJobs == "https://treeherder.mozilla.org/api/jobs/?push_id="
QueueTask == "https://firefox-ci-tc.services.mozilla.com/api/queue/v1/task/"
IndexTask ==
    "https://firefox-ci-tc.services.mozilla.com/api/index/v1/task/gecko.v2."
LocalData == "./data/"

PushUrl(revision) == TreeherderPush \o revision

JobsUrl(id) == TreeherderJobs \o ToString(id)

ArtifactUrl(taskId, f) ==
    QueueTask \o taskId \o "/runs/0/artifacts/public/" \o f

\* The URL fetchFromCI(harness, filename) fetches.
fetchFromCI(hostname, harness, f) ==
    LET repository == IF hostname = "fqueze.github.io"
                      THEN "try" ELSE "mozilla-central"
    IN  IndexTask \o repository \o ".latest.source.test-info-" \o harness
            \o "-timings/artifacts/public/" \o f

LocalUrl(f) == LocalData \o f

\* ----------------------------------------------------------- responses
\* Response.ok
IsOk(status) == status >= 200 /\ status <= 299

\* The response of the request logged at position id of requests.
FetchedResponse(status, id) ==
    [status |-> status, ok |-> IsOk(status), statusText |-> "", id |-> id]

\* new Response(null, { status, statusText }); id 0 marks it as made here.
NewResponse(status, statusText) ==
    [status |-> status, ok |-> IsOk(status), statusText |-> statusText,
     id |-> 0]

NoResponse == [status |-> 0, ok |-> FALSE, statusText |-> "", id |-> -1]

Error(message) == [name |-> "Error", message |-> message]

\* What a rejected fetch() throws.
NetworkError == [name |-> "TypeError", message |-> "Failed to fetch"]

\* What response.json() throws on a body that is not JSON.
ParseError == [name |-> "SyntaxError", message |-> "Unexpected token"]

NotCalled == [state |-> "none"]
Pending == [state |-> "pending"]
Fulfilled(v) == [state |-> "fulfilled", value |-> v]
Rejected(e) == [state |-> "rejected", reason |-> e]

\* ------------------------------------------------- what the servers send
Statuses == {200, 404, 500}

\* The outcome of a fetch(): it throws, or it delivers a status.
FetchOutcomes ==
    {[threw |-> TRUE, status |-> 0]}
        \cup {[threw |-> FALSE, status |-> s] : s \in Statuses}

NotJson == [notJson |-> TRUE]

\* Bodies of the push lookup: no results property, no push, one push, two.
PushBodies ==
    {[detail |-> "x"], [results |-> <<>>], [results |-> <<[id |-> 555]>>],
     [results |-> <<[id |-> 555], [id |-> 777]>>]}

\* The job-type names of the timings jobs of the two harnesses.
JobNames == {"a-xpcshell-timings-rev", "a-mochitest-timings-rev"}
TaskIds == {"T1", "T2", Null}

\* Job rows in the column order job_type_name, task_id, state: the
\* completed timings jobs with every task id, a timings job of each harness
\* that is still running, and a completed job of another type.
Rows ==
    {<<n, t, "completed">> : n \in JobNames, t \in TaskIds}
        \cup {<<n, "T2", "running">> : n \in JobNames}
        \cup {<<"xpcshell-timings-rev-2", "T1", "completed">>}

RowSeqs(k) == UNION {[1..n -> Rows] : n \in 0..k}

StandardNames == <<"job_type_name", "task_id", "state">>
NameLists == {StandardNames, <<"state", "job_type_name", "task_id">>, <<>>}

\* The link to the page after page n of the listing of a push.
NextLink(id, n) == JobsUrl(id) \o "&page=" \o ToString(n + 1)

\* Bodies of page n of the job listing of push id, when the earlier pages
\* delivered used rows: a body without any of the three properties, or
\* rows, a column list and a next link (null on the last page).
JobsBodies(id, n, used) ==
    {[detail |-> "x"]}
        \cup {[results |-> rs, job_property_names |-> ns, next |-> nx] :
                 rs \in RowSeqs(MaxJobs - used), ns \in NameLists,
                 nx \in {Null} \cup
                        (IF n < MaxPages THEN {NextLink(id, n)} ELSE {})}

\* --------------------------------------------------------- fetchJson
\* What fetchJson returns for an outcome o of its fetch, o.body being the
\* body of an ok response: it throws, returns null, or returns the value.
fetchJson(o) ==
    IF o.threw THEN [kind |-> "throw", error |-> NetworkError]
    ELSE IF ~IsOk(o.status) THEN [kind |-> "null"]
    ELSE IF o.body = NotJson THEN [kind |-> "throw", error |-> ParseError]
    ELSE [kind |-> "value", value |-> o.body]

JsonOutcomes(bodies) ==
    {[threw |-> TRUE, status |-> 0, body |-> NotJson]}
        \cup {[threw |-> FALSE, status |-> s, body |-> NotJson] :
                 s \in Statuses}
        \cup {[threw |-> FALSE, status |-> 200, body |-> b] : b \in bodies}

\* ------------------------------------- findTimingsJobsForRevision, scan
NoTimingsJobs == [xpcshell |-> Null, mochitest |-> Null]

\* ScanJob keeping the first match of each harness.
ScanJob_FirstWins(timingsJobs, job, jobTypeNameIndex, taskIdIndex, stateIndex) ==
    LET jobName == At(job, jobTypeNameIndex)
        state == At(job, stateIndex)
        taskId == At(job, taskIdIndex)
    IN  IF state # "completed" \/ ~Truthy(jobName) \/ ~Truthy(taskId)
        THEN timingsJobs
        ELSE IF EndsWith(jobName, "xpcshell-timings-rev")
        THEN IF timingsJobs.xpcshell = Null
             THEN [timingsJobs EXCEPT !.xpcshell = taskId] ELSE timingsJobs
        ELSE IF EndsWith(jobName, "mochitest-timings-rev")
        THEN IF timingsJobs.mochitest = Null
             THEN [timingsJobs EXCEPT !.mochitest = taskId] ELSE timingsJobs
        ELSE timingsJobs

\* ScanJob without the test of the state: a job that is not completed
\* records its task id.
ScanJob_AnyState(timingsJobs, job, jobTypeNameIndex, taskIdIndex, stateIndex) ==
    LET jobName == At(job, jobTypeNameIndex)
        taskId == At(job, taskIdIndex)
    IN  IF ~Truthy(jobName) \/ ~Truthy(taskId)
        THEN timingsJobs
        ELSE IF EndsWith(jobName, "xpcshell-timings-rev")
        THEN [timingsJobs EXCEPT !.xpcshell = taskId]
        ELSE IF EndsWith(jobName, "mochitest-timings-rev")
        THEN [timingsJobs EXCEPT !.mochitest = taskId]
        ELSE timingsJobs

\* One iteration of the loop over allJobs.
ScanJob(timingsJobs, job, jobTypeNameIndex, taskIdIndex, stateIndex) ==
    LET jobName == At(job, jobTypeNameIndex)
        state == At(job, stateIndex)
        taskId == At(job, taskIdIndex)
    IN  IF state # "completed" \/ ~Truthy(jobName) \/ ~Truthy(taskId)
        THEN timingsJobs
        ELSE IF EndsWith(jobName, "xpcshell-timings-rev")
        THEN [timingsJobs EXCEPT !.xpcshell = taskId]
        ELSE IF EndsWith(jobName, "mochitest-timings-rev")
        THEN [timingsJobs EXCEPT !.mochitest = taskId]
        ELSE timingsJobs

RECURSIVE ScanJobs(_, _, _, _, _)
ScanJobs(timingsJobs, jobs, jobTypeNameIndex, taskIdIndex, stateIndex) ==
    IF jobs = <<>> THEN timingsJobs
    ELSE ScanJobs(ScanJob(timingsJobs, Head(jobs), jobTypeNameIndex,
                          taskIdIndex, stateIndex),
                  Tail(jobs), jobTypeNameIndex, taskIdIndex, stateIndex)

\* The timingsJobs object built from the rows and the column list.
FindTimingsJobs(jobs, names) ==
    ScanJobs(NoTimingsJobs, jobs, IndexOf(names, "job_type_name"),
             IndexOf(names, "task_id"), IndexOf(names, "state"))

\* ------------------------------------------------------------- inputs
Revision == "0123456789abcdef0123456789abcdef01234567"

FileNames ==
    {"index.json", "mochitest-foo.json", "xpcshell-foo.json", "foo.json",
     "xpcshell-try-abc.json",
     "xpcshell-try-" \o Revision \o ".json",
     "mochitest-try-" \o Revision \o ".json",
     "xpcshell-try-" \o SubSeq(Revision, 1, RevLen - 1) \o ".json",
     "xpcshell-try-" \o Revision \o "0.json",
     "xpcshell-try-" \o SubSeq(Revision, 1, RevLen - 1) \o "A.json",
     "xpcshell-try-" \o Revision \o ".json5"}

\* window.location of the page: protocol, hostname and search (the query
\* string).
Protocols == {"https:", "http:"}
Hostnames == {"fqueze.github.io", "localhost"}
Searches ==
    {"", "?kind=", "?kind=mochitest", "?kind=xpcshell", "?kind=other"}

\* -------------------------------------------------------------- state
VARIABLES
    protocol,       \* window.location.protocol
    hostname,       \* window.location.hostname, Undefined until it is read
    search,         \* window.location.search, Undefined until it is read
    filename,       \* the argument of the fetchData call
    pc,             \* where the call is: the await it is suspended at
    requests,       \* every request issued so far, with its outcome
    inflight,       \* positions in requests of the requests not completed
    tryMatch,       \* fetchData: the result of filename.match
    pushId,         \* findTimingsJobsForRevision: pushId (0: not assigned)
    allJobs,        \* findTimingsJobsForRevision: allJobs
    propertyNames,  \* findTimingsJobsForRevision: propertyNames
    url,            \* findTimingsJobsForRevision: url
    listing,        \* the pages of the job listing when the server holds a
                    \* fixed listing; <<>> when it may deliver any page
    located,        \* the promise findTimingsJobsForRevision returned
    response,       \* fetchData: the response of the first awaited fetch
    result          \* the promise fetchData returned

vars ==
    <<protocol, hostname, search, filename, pc, requests, inflight, tryMatch,
      pushId, allJobs, propertyNames, url, listing, located, response, result>>

pageVars == <<protocol, hostname, search, listing>>

locatorVars == <<pushId, allJobs, propertyNames, url, located>>

Init ==
    /\ protocol \in Protocols
    /\ hostname = Undefined
    /\ search = Undefined
    /\ filename \in FileNames
    /\ pc = "start"
    /\ requests = <<>>
    /\ inflight = {}
    /\ tryMatch = NoMatch
    /\ pushId = 0
    /\ allJobs = <<>>
    /\ propertyNames = <<>>
    /\ url = Undefined
    /\ listing = <<>>
    /\ located = NotCalled
    /\ response = NoResponse
    /\ result = Pending

\* ------------------------------------------------- issuing and returning
\* Page n of a fixed listing as the server sends it for push id: its next
\* link leads to page n + 1 and is null on the last page.
ListedBody(id, n) ==
    [f \in DOMAIN listing[n] \cup {"next"} |->
        IF f = "next"
        THEN IF n < Len(listing) THEN NextLink(id, n) ELSE Null
        ELSE listing[n][f]]

\* The bodies the server may send for page n of the job listing.
ServedBodies(id, n, used) ==
    IF listing = <<>> THEN JobsBodies(id, n, used) ELSE {ListedBody(id, n)}

\* The log with request i completed by outcome o.
Settle(i, o) ==
    [requests EXCEPT ![i] =
        [url |-> @.url,
         outcome |-> IF o.threw THEN "threw" ELSE "response",
         status |-> o.status]]

\* fetch(u) is called after the requests in done completed, and the call
\* suspends at the await named next.
Issue(log, done, u, next) ==
    /\ requests' = Append(log, [url |-> u, outcome |-> "pending", status |-> 0])
    /\ inflight' = (inflight \ done) \cup {Len(log) + 1}
    /\ pc' = next
    /\ result' = result

\* fetchData returns: its promise settles as res.
Return(log, done, res) ==
    /\ requests' = log
    /\ inflight' = inflight \ done
    /\ pc' = "done"
    /\ result' = res

\* The catch clause of the try-revision branch of fetchData.
CatchTry(error) ==
    Fulfilled(NewResponse(NotFoundStatus, error.message))

\* return fetch(u): the promise of fetchData follows the promise of the
\* fetch, logged at position i, whose outcome is o.
ReturnFetch(o, i) ==
    IF o.threw THEN Rejected(NetworkError)
    ELSE Fulfilled(FetchedResponse(o.status, i))

\* The job-listing pages requested so far.
PagesFetched ==
    Cardinality({i \in DOMAIN requests :
                    StartsWith(requests[i].url, TreeherderJobs)})

\* ------------------------------------------------------------ fetchData
\* fetchData(filename) is called and runs to its first await.
FetchData ==
    /\ pc = "start"
    /\ IF protocol = "https:"
       THEN /\ tryMatch' = TryMatch(filename)
            /\ IF tryMatch'.matched
               THEN /\ located' = Pending
                    /\ Issue(requests, {}, PushUrl(tryMatch'.revision), "push")
                    /\ UNCHANGED <<hostname, search>>
               ELSE /\ hostname' \in Hostnames
                    /\ IF ReadsSearch(filename)
                       THEN search' \in Searches
                       ELSE search' = search
                    /\ Issue(requests, {},
                             fetchFromCI(hostname',
                                         DetectHarness(filename, search'),
                                         filename),
                             "index")
                    /\ UNCHANGED located
       ELSE /\ Issue(requests, {}, LocalUrl(filename), "local")
            /\ UNCHANGED <<tryMatch, hostname, search, located>>
    /\ UNCHANGED <<protocol, filename, pushId, allJobs, propertyNames, url,
                   listing, response>>

\* FallBack in both directions: a mochitest request falls back to the
\* xpcshell artifact as an xpcshell request falls back to the mochitest one.
FallBack_BothWays(log, done, jobs) ==
    IF tryMatch.requestedHarness = "xpcshell" /\ Truthy(jobs.mochitest)
    THEN Issue(log, done,
               ArtifactUrl(jobs.mochitest,
                           Replace(filename, "xpcshell-", "mochitest-")),
               "fallback")
    ELSE IF tryMatch.requestedHarness = "mochitest" /\ Truthy(jobs.xpcshell)
    THEN Issue(log, done,
               ArtifactUrl(jobs.xpcshell,
                           Replace(filename, "mochitest-", "xpcshell-")),
               "fallback")
    ELSE Return(log, done,
                CatchTry(Error("No " \o tryMatch.requestedHarness
                               \o "-timings job found for revision "
                               \o tryMatch.revision)))

\* FallBack fetching the original filename under the mochitest task id.
FallBack_SameName(log, done, jobs) ==
    IF tryMatch.requestedHarness = "xpcshell" /\ Truthy(jobs.mochitest)
    THEN Issue(log, done, ArtifactUrl(jobs.mochitest, filename), "fallback")
    ELSE Return(log, done,
                CatchTry(Error("No " \o tryMatch.requestedHarness
                               \o "-timings job found for revision "
                               \o tryMatch.revision)))

\* FallBack returning the failed response of the requested harness, when
\* there is one, instead of throwing.
FallBack_ReturnFailed(log, done, jobs) ==
    IF tryMatch.requestedHarness = "xpcshell" /\ Truthy(jobs.mochitest)
    THEN Issue(log, done,
               ArtifactUrl(jobs.mochitest,
                           Replace(filename, "xpcshell-", "mochitest-")),
               "fallback")
    ELSE IF StartsWith(log[Len(log)].url, QueueTask)
               /\ log[Len(log)].outcome = "response"
    THEN Return(log, done,
                Fulfilled(FetchedResponse(log[Len(log)].status, Len(log))))
    ELSE Return(log, done,
                CatchTry(Error("No " \o tryMatch.requestedHarness
                               \o "-timings job found for revision "
                               \o tryMatch.revision)))

\* The try-revision branch after the requested harness gave no ok
\* response: the mochitest fallback, or the throw that the catch clause
\* turns into the synthetic response.
FallBack(log, done, jobs) ==
    IF tryMatch.requestedHarness = "xpcshell" /\ Truthy(jobs.mochitest)
    THEN Issue(log, done,
               ArtifactUrl(jobs.mochitest,
                           Replace(filename, "xpcshell-", "mochitest-")),
               "fallback")
    ELSE Return(log, done,
                CatchTry(Error("No " \o tryMatch.requestedHarness
                               \o "-timings job found for revision "
                               \o tryMatch.revision)))

\* AfterLocator fetching the artifact of the requested harness and the
\* mochitest fallback at once when both task ids are known.
AfterLocator_Eager(log, done, jobs) ==
    IF /\ tryMatch.requestedHarness = "xpcshell"
       /\ Truthy(jobs.xpcshell) /\ Truthy(jobs.mochitest)
    THEN /\ requests' =
               log \o <<[url |-> ArtifactUrl(jobs.xpcshell, filename),
                         outcome |-> "pending", status |-> 0],
                        [url |-> ArtifactUrl(jobs.mochitest,
                                             Replace(filename, "xpcshell-",
                                                     "mochitest-")),
                         outcome |-> "pending", status |-> 0]>>
         /\ inflight' = (inflight \ done) \cup {Len(log) + 1, Len(log) + 2}
         /\ pc' = "artifact"
         /\ result' = result
    ELSE IF Truthy(jobs[tryMatch.requestedHarness])
    THEN Issue(log, done,
               ArtifactUrl(jobs[tryMatch.requestedHarness], filename),
               "artifact")
    ELSE FallBack(log, done, jobs)

\* The try-revision branch once findTimingsJobsForRevision returned jobs.
AfterLocator(log, done, jobs) ==
    IF Truthy(jobs[tryMatch.requestedHarness])
    THEN Issue(log, done,
               ArtifactUrl(jobs[tryMatch.requestedHarness], filename),
               "artifact")
    ELSE FallBack(log, done, jobs)

\* LocatorThrows returning the task ids of the rows fetched so far
\* instead of throwing.
LocatorThrows_Partial(log, done, error) ==
    /\ located' = Fulfilled(FindTimingsJobs(allJobs, propertyNames))
    /\ AfterLocator(log, done, located'.value)
    /\ UNCHANGED <<pushId, allJobs, propertyNames, url>>

\* findTimingsJobsForRevision throws error: its catch clause rethrows, and
\* the catch clause of fetchData returns the synthetic response.
LocatorThrows(log, done, error) ==
    /\ located' = Rejected(error)
    /\ Return(log, done, CatchTry(error))
    /\ UNCHANGED <<pushId, allJobs, propertyNames, url>>

\* The push lookup completes: findTimingsJobsForRevision throws, or it
\* takes the first push and requests the first page of its jobs.
PushLookupDone ==
    /\ pc = "push"
    /\ \E i \in inflight, o \in JsonOutcomes(PushBodies) :
          LET log == Settle(i, o)
              pushResult == fetchJson(o)
          IN  IF pushResult.kind = "throw"
              THEN LocatorThrows(log, {i}, pushResult.error)
              ELSE IF \/ pushResult.kind = "null"
                      \/ "results" \notin DOMAIN pushResult.value
                      \/ Len(pushResult.value.results) = 0
              THEN LocatorThrows(log, {i},
                                 Error("No push found for revision "
                                       \o tryMatch.revision \o " on try"))
              ELSE /\ pushId' = pushResult.value.results[1].id
                   /\ allJobs' = <<>>
                   /\ propertyNames' = <<>>
                   /\ url' = JobsUrl(pushId')
                   /\ Issue(log, {i}, url', "jobs")
                   /\ UNCHANGED located
    /\ UNCHANGED <<pageVars, filename, tryMatch, response>>

\* ConcatResults keeping the rows of the latest page only.
ConcatResults_LatestPage(jobs, body) ==
    IF "results" \in DOMAIN body THEN body.results ELSE <<>>

\* allJobs.concat(result.results || []) for the body of a page.
ConcatResults(jobs, body) ==
    jobs \o (IF "results" \in DOMAIN body THEN body.results ELSE <<>>)

\* NextUrl never following the next link.
NextUrl_FirstPageOnly(body) == Undefined

\* url = result.next for the body of a page.
NextUrl(body) ==
    IF "next" \in DOMAIN body THEN body.next ELSE Undefined

\* A page of the job listing completes: findTimingsJobsForRevision throws,
\* requests the next page, or scans the rows and returns, and fetchData
\* goes on with the task ids.
JobsPageDone ==
    /\ pc = "jobs"
    /\ \E i \in inflight,
          o \in JsonOutcomes(ServedBodies(pushId, PagesFetched, Len(allJobs))) :
          LET log == Settle(i, o)
              page == fetchJson(o)
          IN  IF page.kind = "throw"
              THEN LocatorThrows(log, {i}, page.error)
              ELSE IF page.kind = "null"
              THEN LocatorThrows(log, {i},
                                 Error("Failed to fetch jobs for push ID "
                                       \o ToString(pushId)))
              ELSE /\ allJobs' = ConcatResults(allJobs, page.value)
                   /\ propertyNames' =
                         IF Len(propertyNames) = 0
                         THEN IF "job_property_names" \in DOMAIN page.value
                              THEN page.value.job_property_names ELSE <<>>
                         ELSE propertyNames
                   /\ url' = NextUrl(page.value)
                   /\ pushId' = pushId
                   /\ IF Truthy(url')
                      THEN /\ Issue(log, {i}, url', "jobs")
                           /\ UNCHANGED located
                      ELSE /\ located' = Fulfilled(
                                 FindTimingsJobs(allJobs', propertyNames'))
                           /\ AfterLocator(log, {i}, located'.value)
    /\ UNCHANGED <<pageVars, filename, tryMatch, response>>

\* AfterArtifact without the return of an ok response.
AfterArtifact_NoReturn(log, done, resp) ==
    FallBack(log, done, located.value)

\* The try-revision branch once the artifact fetch of the requested
\* harness delivered resp.
AfterArtifact(log, done, resp) ==
    IF resp.ok
    THEN Return(log, done, Fulfilled(resp))
    ELSE FallBack(log, done, located.value)

\* ArtifactThrew going on to the mochitest fallback as after a response
\* that is not ok.
ArtifactThrew_FallBack(log, done) ==
    FallBack(log, done, located.value)

\* The try-revision branch once the artifact fetch of the requested
\* harness threw: the catch clause returns the synthetic response.
ArtifactThrew(log, done) ==
    Return(log, done, CatchTry(NetworkError))

\* The artifact fetch of the requested harness completes.
ArtifactDone ==
    /\ pc = "artifact"
    /\ \E i \in inflight, o \in FetchOutcomes :
          LET log == Settle(i, o)
          IN  IF o.threw
              THEN /\ ArtifactThrew(log, {i})
                   /\ UNCHANGED response
              ELSE /\ response' = FetchedResponse(o.status, i)
                   /\ AfterArtifact(log, {i}, response')
    /\ UNCHANGED <<pageVars, filename, tryMatch, locatorVars>>

\* The mochitest fallback artifact fetch completes.
FallbackDone ==
    /\ pc = "fallback"
    /\ \E i \in inflight, o \in FetchOutcomes :
          Return(Settle(i, o), {i}, ReturnFetch(o, i))
    /\ UNCHANGED <<pageVars, filename, tryMatch, locatorVars, response>>

\* AfterIndex falling back for every filename.
AfterIndex_AlwaysFallback(log, done, resp) ==
    IF resp.ok
    THEN Return(log, done, Fulfilled(resp))
    ELSE Issue(log, done,
               fetchFromCI(hostname, "mochitest",
                           Replace(filename, "xpcshell-", "mochitest-")),
               "indexFallback")

\* The index branch once the fetch of the detected harness delivered resp.
AfterIndex(log, done, resp) ==
    IF resp.ok
    THEN Return(log, done, Fulfilled(resp))
    ELSE IF StartsWith(filename, "xpcshell-try-")
    THEN Issue(log, done,
               fetchFromCI(hostname, "mochitest",
                           Replace(filename, "xpcshell-", "mochitest-")),
               "indexFallback")
    ELSE Return(log, done, Fulfilled(resp))

\* The index fetch of the detected harness completes.
IndexDone ==
    /\ pc = "index"
    /\ \E i \in inflight, o \in FetchOutcomes :
          LET log == Settle(i, o)
          IN  IF o.threw
              THEN /\ Return(log, {i}, Rejected(NetworkError))
                   /\ UNCHANGED response
              ELSE /\ response' = FetchedResponse(o.status, i)
                   /\ AfterIndex(log, {i}, response')
    /\ UNCHANGED <<pageVars, filename, tryMatch, locatorVars>>

\* The mochitest index fetch of an xpcshell-try- filename completes.
IndexFallbackDone ==
    /\ pc = "indexFallback"
    /\ \E i \in inflight, o \in FetchOutcomes :
          Return(Settle(i, o), {i}, ReturnFetch(o, i))
    /\ UNCHANGED <<pageVars, filename, tryMatch, locatorVars, response>>

\* AfterLocalTry returning the outcome of the first fetch for a filename
\* that has no mochitest fallback, instead of fetching again.
AfterLocalTry_ReturnFirst(log, done) ==
    IF StartsWith(filename, "xpcshell-try-")
    THEN Issue(log, done,
               LocalUrl(Replace(filename, "xpcshell-", "mochitest-")),
               "localFallback")
    ELSE IF log[Len(log)].outcome = "response"
    THEN Return(log, done,
                Fulfilled(FetchedResponse(log[Len(log)].status, Len(log))))
    ELSE Return(log, done, Rejected(NetworkError))

\* The local branch after its try statement: the first fetch threw or
\* delivered a response that is not ok.
AfterLocalTry(log, done) ==
    IF StartsWith(filename, "xpcshell-try-")
    THEN Issue(log, done,
               LocalUrl(Replace(filename, "xpcshell-", "mochitest-")),
               "localFallback")
    ELSE Issue(log, done, LocalUrl(filename), "localRefetch")

\* LocalTry without the catch clause: a fetch that throws rejects the call.
LocalTry_NoCatch(log, done, o, resp) ==
    IF o.threw
    THEN Return(log, done, Rejected(NetworkError))
    ELSE IF resp.ok
    THEN Return(log, done, Fulfilled(resp))
    ELSE AfterLocalTry(log, done)

\* The try statement of the local branch, when its fetch has outcome o and,
\* unless it threw, delivered resp.
LocalTry(log, done, o, resp) ==
    IF o.threw
    THEN AfterLocalTry(log, done)
    ELSE IF resp.ok
    THEN Return(log, done, Fulfilled(resp))
    ELSE AfterLocalTry(log, done)

\* The first local fetch completes.
LocalDone ==
    /\ pc = "local"
    /\ \E i \in inflight, o \in FetchOutcomes :
          /\ response' = IF o.threw THEN response
                         ELSE FetchedResponse(o.status, i)
          /\ LocalTry(Settle(i, o), {i}, o, response')
    /\ UNCHANGED <<pageVars, filename, tryMatch, locatorVars>>

\* The second local fetch completes.
LocalSecondDone ==
    /\ pc \in {"localFallback", "localRefetch"}
    /\ \E i \in inflight, o \in FetchOutcomes :
          Return(Settle(i, o), {i}, ReturnFetch(o, i))
    /\ UNCHANGED <<pageVars, filename, tryMatch, locatorVars, response>>

Next ==
    \/ FetchData
    \/ PushLookupDone
    \/ JobsPageDone
    \/ ArtifactDone
    \/ FallbackDone
    \/ IndexDone
    \/ IndexFallbackDone
    \/ LocalDone
    \/ LocalSecondDone

Spec == Init /\ [][Next]_vars

\* ------------------------------------------- a server with a fixed listing
\* The rows of fixed listings: two completed xpcshell timings jobs and a
\* completed mochitest timings job.
ListedRows ==
    {<<"a-xpcshell-timings-rev", "T1", "completed">>,
     <<"a-xpcshell-timings-rev", "T2", "completed">>,
     <<"a-mochitest-timings-rev", "T2", "completed">>}

\* The pages with j rows a fixed listing may hold: rows with a column
\* list, or an empty page without the job_property_names property.
ListedPages(j) ==
    {[results |-> rs, job_property_names |-> ns] :
        rs \in [1..j -> ListedRows], ns \in NameLists}
        \cup (IF j = 0 THEN {[results |-> <<>>]} ELSE {})

\* The listings of at most n pages and at most k rows.
RECURSIVE ListingsOf(_, _)
ListingsOf(n, k) ==
    IF n = 0 THEN {<<>>}
    ELSE {<<>>} \cup
         UNION {{<<p>> \o rest : p \in ListedPages(j),
                                 rest \in ListingsOf(n - 1, k - j)} :
                   j \in 0..k}

Listings == ListingsOf(MaxPages, MaxJobs) \ {<<>>}

\* fetchData is called on the try-revision path against a server that holds
\* a fixed job listing.
InitListed ==
    /\ protocol = "https:"
    /\ hostname = Undefined
    /\ search = Undefined
    /\ filename = "xpcshell-try-" \o Revision \o ".json"
    /\ pc = "start"
    /\ requests = <<>>
    /\ inflight = {}
    /\ tryMatch = NoMatch
    /\ pushId = 0
    /\ allJobs = <<>>
    /\ propertyNames = <<>>
    /\ url = Undefined
    /\ listing \in Listings
    /\ located = NotCalled
    /\ response = NoResponse
    /\ result = Pending

\* The steps of the call until findTimingsJobsForRevision returns.
NextListed ==
    \/ FetchData
    \/ PushLookupDone
    \/ JobsPageDone

\* Every issued request of the locator eventually completes.
SpecListed == InitListed /\ [][NextListed]_vars /\ WF_vars(NextListed)

\* ====================================================== properties
\* The filenames of FileNames that are try-revision names, written out.
TryRevisionFiles ==
    {"xpcshell-try-0123456789abcdef0123456789abcdef01234567.json",
     "mochitest-try-0123456789abcdef0123456789abcdef01234567.json"}

\* The call is on the try-revision path of remote mode.
TryPath == protocol = "https:" /\ filename \in TryRevisionFiles

\* The harness named by a try-revision filename.
Requested ==
    IF filename = "xpcshell-try-0123456789abcdef0123456789abcdef01234567.json"
    THEN "xpcshell" ELSE "mochitest"

\* The filename with its xpcshell- prefix rewritten to mochitest-.
Renamed == "mochitest-" \o SubSeq(filename, 10, Len(filename))

\* Request i completed with a response that is ok / that is not ok.
GotOk(i) ==
    requests[i].outcome = "response" /\ IsOk(requests[i].status)
GotNotOk(i) ==
    requests[i].outcome = "response" /\ ~IsOk(requests[i].status)

\* The positions of the requests sent to Treeherder, and to the task queue.
TreeherderRequests ==
    {i \in DOMAIN requests :
        StartsWith(requests[i].url, "https://treeherder.mozilla.org/")}
ArtifactRequests ==
    {i \in DOMAIN requests : StartsWith(requests[i].url, QueueTask)}

\* A response made by fetchData itself with status 404 and ok = false.
Synthetic404(r) == r.status = 404 /\ r.ok = FALSE /\ r.id = 0

\* The index URL of a repository, a harness and a filename.
IndexUrl(repository, harness, f) ==
    "https://firefox-ci-tc.services.mozilla.com/api/index/v1/task/gecko.v2."
        \o repository \o ".latest.source.test-info-" \o harness
        \o "-timings/artifacts/public/" \o f

Repositories == {"try", "mozilla-central"}

\* C1: on the try-revision path of remote mode fetchData never rejects,
\* whatever request of that path fails: the promise it returned is pending
\* or fulfilled with a response in every state.
C1_TryPathNeverRejects ==
    TryPath => result.state # "rejected"

\* C2: on the try-revision path, whenever the job locator fails (a push
\* lookup or job-listing page that throws or is not ok, or a push lookup
\* without a push) fetchData has returned the synthetic 404 response whose
\* statusText is the message of the locator's error, and no artifact
\* request was issued.
C2_LocatorFailureGives404 ==
    TryPath =>
        /\ (\/ \E i \in TreeherderRequests :
                  requests[i].outcome = "threw" \/ GotNotOk(i)
            \/ (pc = "done" /\ pushId = 0))
              => located.state = "rejected"
        /\ located.state = "rejected" =>
              /\ pc = "done"
              /\ result.state = "fulfilled"
              /\ Synthetic404(result.value)
              /\ result.value.statusText = located.reason.message
              /\ ArtifactRequests = {}
        /\ (Len(requests) >= 1 /\ GotNotOk(1)) =>
              result.value.statusText =
                  "No push found for revision "
                      \o "0123456789abcdef0123456789abcdef01234567"
                      \o " on try"
        /\ \A i \in TreeherderRequests :
              (i > 1 /\ GotNotOk(i)) =>
                  result.value.statusText =
                      "Failed to fetch jobs for push ID " \o ToString(pushId)

\* C2 witness: the second job-listing page failed after the first page
\* delivered a qualifying completed xpcshell timings job, and the call
\* returned the synthetic 404.
C2_Witness ==
    /\ TryPath /\ pc = "done" /\ Len(requests) = 3 /\ GotNotOk(3)
    /\ allJobs = <<<<"a-xpcshell-timings-rev", "T1", "completed">>>>
    /\ propertyNames = <<"job_type_name", "task_id", "state">>
    /\ located.state = "rejected"
    /\ result.state = "fulfilled" /\ result.value.status = 404

\* C3: on the try-revision path, when the artifact fetch under the task id
\* of the requested harness (with the original filename) delivered an ok
\* response, fetchData has returned exactly that response and that request
\* is the last one issued: the mochitest fallback artifact was not fetched.
C3_OkArtifactIsReturned ==
    (TryPath /\ located.state = "fulfilled") =>
        \A i \in DOMAIN requests :
            (/\ requests[i].url =
                   QueueTask \o located.value[Requested]
                       \o "/runs/0/artifacts/public/" \o filename
             /\ GotOk(i))
            => /\ pc = "done"
               /\ result = Fulfilled([status |-> requests[i].status,
                                      ok |-> TRUE, statusText |-> "",
                                      id |-> i])
               /\ Len(requests) = i
               /\ ArtifactRequests = {i}

\* C3 witness: xpcshell was requested, both task ids were found, the
\* xpcshell artifact fetch was ok and its response was returned.
C3_Witness ==
    /\ TryPath /\ Requested = "xpcshell" /\ pc = "done"
    /\ located.state = "fulfilled"
    /\ located.value = [xpcshell |-> "T1", mochitest |-> "T2"]
    /\ requests[Len(requests)].url = ArtifactUrl("T1", filename)
    /\ GotOk(Len(requests))
    /\ result.state = "fulfilled" /\ result.value.id = Len(requests)

\* The fallback condition of C4: xpcshell requested, a mochitest task id
\* found, and no xpcshell task id or a non-ok xpcshell artifact response.
C4_Case ==
    /\ TryPath /\ Requested = "xpcshell"
    /\ located.state = "fulfilled"
    /\ Truthy(located.value.mochitest)
    /\ \/ ~Truthy(located.value.xpcshell)
       \/ \E i \in DOMAIN requests :
             /\ requests[i].url =
                   QueueTask \o located.value.xpcshell
                       \o "/runs/0/artifacts/public/" \o filename
             /\ GotNotOk(i)

\* C4: in that case exactly one fetch of the mochitest-renamed filename
\* under the mochitest task id was issued, it is the last request, and
\* once it delivered a response, ok or not, fetchData has returned it.
C4_MochitestFallback ==
    C4_Case =>
        LET fb == QueueTask \o located.value.mochitest
                      \o "/runs/0/artifacts/public/" \o Renamed
            n == Len(requests)
        IN  /\ Cardinality({i \in DOMAIN requests : requests[i].url = fb}) = 1
            /\ requests[n].url = fb
            /\ requests[n].outcome = "response" =>
                  /\ pc = "done"
                  /\ result = Fulfilled([status |-> requests[n].status,
                                         ok |-> IsOk(requests[n].status),
                                         statusText |-> "", id |-> n])

\* C4 witness: the xpcshell artifact was not ok, the mochitest fallback
\* was not ok either, and the fallback's response was returned.
C4_Witness ==
    /\ C4_Case /\ pc = "done"
    /\ Cardinality(ArtifactRequests) = 2
    /\ \A i \in ArtifactRequests : GotNotOk(i)
    /\ result.state = "fulfilled" /\ result.value.id = Len(requests)
    /\ result.value.status = 500

\* C5: on the try-revision path, when the locator succeeded and the call
\* is over without an ok response of the requested harness's artifact
\* fetch and without the fallback condition (xpcshell requested and a
\* mochitest task id found), fetchData has returned a synthetic response
\* with status 404 and ok = false, also when the artifact fetch delivered
\* a non-ok response with another status.
C5_NoJobGives404 ==
    (/\ TryPath /\ located.state = "fulfilled" /\ pc = "done"
     /\ ~(Requested = "xpcshell" /\ Truthy(located.value.mochitest))
     /\ ~\E i \in ArtifactRequests : GotOk(i))
    => /\ result.state = "fulfilled"
       /\ Synthetic404(result.value)

\* C5 witness: the artifact fetch of the requested harness delivered a 500
\* response, no fallback applied, and the caller received the synthetic
\* 404.
C5_Witness ==
    /\ TryPath /\ located.state = "fulfilled" /\ pc = "done"
    /\ ~(Requested = "xpcshell" /\ Truthy(located.value.mochitest))
    /\ ArtifactRequests = {Len(requests)}
    /\ requests[Len(requests)].outcome = "response"
    /\ requests[Len(requests)].status = 500
    /\ result.state = "fulfilled" /\ result.value.status = 404

\* C6: once fetchData has started, a Treeherder request (push lookup, job
\* listing) was issued if and only if the page is https and the filename
\* is (xpcshell|mochitest)-try-<40 lowercase hex>.json, and then the first
\* request is the push lookup of that revision; xpcshell-try-abc.json in
\* remote mode goes to the xpcshell index and, after a non-ok response, to
\* the mochitest index with the renamed filename; in local mode every
\* request is under ./data/.
C6_LocatorIffTryRevision ==
    pc # "start" =>
        /\ (TreeherderRequests # {}) <=> TryPath
        /\ TryPath =>
              requests[1].url =
                  "https://treeherder.mozilla.org/api/project/try/push/?full=true&count=10&revision=0123456789abcdef0123456789abcdef01234567"
        /\ (protocol = "https:" /\ filename = "xpcshell-try-abc.json") =>
              /\ \E r \in Repositories :
                    requests[1].url = IndexUrl(r, "xpcshell", filename)
              /\ GotNotOk(1) =>
                    /\ Len(requests) = 2
                    /\ \E r \in Repositories :
                          requests[2].url =
                              IndexUrl(r, "mochitest", "mochitest-try-abc.json")
        /\ protocol # "https:" =>
              \A i \in DOMAIN requests :
                  StartsWith(requests[i].url, "./data/")

\* C6 witness: xpcshell-try-abc.json in remote mode took the index fetch
\* and the legacy fallback, without any Treeherder request.
C6_Witness ==
    /\ protocol = "https:" /\ filename = "xpcshell-try-abc.json"
    /\ pc = "done" /\ Len(requests) = 2 /\ GotNotOk(1)
    /\ TreeherderRequests = {}

\* C7: in remote mode for a filename that is not a try-revision name, the
\* first request is an index fetch of the filename; a second request, the
\* mochitest index fetch of the renamed filename, exists if and only if
\* the first response is not ok and the filename starts with
\* xpcshell-try-; when the first response is ok, or is not ok and the
\* filename has no such prefix, that response has been returned and one
\* request was issued; never more than two requests.
C7_IndexFallback ==
    (protocol = "https:" /\ filename \notin TryRevisionFiles /\ pc # "start")
    => /\ Len(requests) \in {1, 2}
       /\ \E r \in Repositories, h \in {"xpcshell", "mochitest", "other"} :
             requests[1].url = IndexUrl(r, h, filename)
       /\ Len(requests) = 2 <=>
             (GotNotOk(1) /\ StartsWith(filename, "xpcshell-try-"))
       /\ Len(requests) = 2 =>
             \E r \in Repositories :
                 requests[2].url = IndexUrl(r, "mochitest", Renamed)
       /\ (\/ GotOk(1)
           \/ (GotNotOk(1) /\ ~StartsWith(filename, "xpcshell-try-")))
          => /\ pc = "done"
             /\ Len(requests) = 1
             /\ result = Fulfilled([status |-> requests[1].status,
                                    ok |-> IsOk(requests[1].status),
                                    statusText |-> "", id |-> 1])

\* C7 witness: xpcshell-foo.json got a 404 from the index and that very
\* response was returned after one request.
C7_Witness ==
    /\ protocol = "https:" /\ filename = "xpcshell-foo.json"
    /\ pc = "done" /\ Len(requests) = 1 /\ GotNotOk(1)
    /\ result.state = "fulfilled"
    /\ result.value.status = 404 /\ result.value.id = 1

\* C8: in local mode for a filename starting with xpcshell-try-, when the
\* first fetch of ./data/<filename> threw or delivered a non-ok response,
\* the second request fetches ./data/<mochitest-renamed filename> and
\* fetchData settles as that fetch does; when the first fetch delivered
\* an ok response, that response has been returned and no second request
\* was issued.
C8_LocalTryFallback ==
    (/\ protocol # "https:" /\ StartsWith(filename, "xpcshell-try-")
     /\ pc # "start")
    => /\ requests[1].url = "./data/" \o filename
       /\ (requests[1].outcome = "threw" \/ GotNotOk(1)) =>
             /\ Len(requests) = 2
             /\ requests[2].url = "./data/" \o Renamed
             /\ requests[2].outcome = "response" =>
                   /\ pc = "done"
                   /\ result = Fulfilled([status |-> requests[2].status,
                                          ok |-> IsOk(requests[2].status),
                                          statusText |-> "", id |-> 2])
             /\ requests[2].outcome = "threw" =>
                   (pc = "done" /\ result.state = "rejected")
       /\ GotOk(1) =>
             /\ pc = "done"
             /\ Len(requests) = 1
             /\ result = Fulfilled([status |-> requests[1].status,
                                    ok |-> TRUE, statusText |-> "",
                                    id |-> 1])

\* C8 witness: the first local fetch of xpcshell-try-abc.json threw, the
\* fetch of ./data/mochitest-try-abc.json delivered an ok response and
\* that response was returned.
C8_Witness ==
    /\ protocol # "https:" /\ filename = "xpcshell-try-abc.json"
    /\ pc = "done" /\ Len(requests) = 2
    /\ requests[1].outcome = "threw"
    /\ requests[2].url = "./data/mochitest-try-abc.json" /\ GotOk(2)
    /\ result.state = "fulfilled" /\ result.value.id = 2

\* The value of the kind parameter is absent, empty, or one of the two
\* harness names.
KindIsHarnessOrEmpty ==
    search \in {Undefined, "", "?kind=", "?kind=mochitest", "?kind=xpcshell"}

\* C9: every index request goes to the xpcshell-timings or the
\* mochitest-timings index, for every filename and every value of the
\* page's kind parameter.
C9_HarnessIsOneOfTwo ==
    \A i \in DOMAIN requests :
        StartsWith(requests[i].url, IndexTask) =>
            \E r \in Repositories, h \in {"xpcshell", "mochitest"} :
                StartsWith(requests[i].url, IndexUrl(r, h, ""))

\* C9 as amended: every index request goes to the xpcshell-timings or the
\* mochitest-timings index unless the filename is index.json and the kind
\* parameter is a non-empty string other than the two harness names; in
\* that case the first index request goes to the index named after the
\* value of kind.
C9_HarnessIsOneOfTwoOrKind ==
    \A i \in DOMAIN requests :
        StartsWith(requests[i].url, IndexTask) =>
            IF filename = "index.json" /\ ~KindIsHarnessOrEmpty
            THEN \E r \in Repositories :
                    requests[i].url =
                        IndexUrl(r, SubSeq(search, 7, Len(search)), filename)
            ELSE \E r \in Repositories, h \in {"xpcshell", "mochitest"} :
                    StartsWith(requests[i].url, IndexUrl(r, h, ""))

\* C9 witness: index.json with kind=other was requested from the index
\* of the harness "other".
C9_Witness ==
    /\ filename = "index.json" /\ search = "?kind=other"
    /\ Len(requests) = 1
    /\ \E r \in Repositories :
          requests[1].url = IndexUrl(r, "other", "index.json")

\* C10: the first index fetch of a direct remote request uses the
\* mochitest index for a filename starting with mochitest-, the xpcshell
\* index for every other filename that is not index.json, and for
\* index.json the xpcshell index when kind is absent or empty and the
\* mochitest index when kind=mochitest; the repository is try on the host
\* fqueze.github.io and mozilla-central elsewhere.
C10_FirstIndexHarness ==
    (protocol = "https:" /\ filename \notin TryRevisionFiles /\ pc # "start")
    => LET r == IF hostname = "fqueze.github.io"
                THEN "try" ELSE "mozilla-central"
       IN  /\ StartsWith(filename, "mochitest-") =>
                 requests[1].url = IndexUrl(r, "mochitest", filename)
           /\ (~StartsWith(filename, "mochitest-") /\ filename # "index.json")
                 => requests[1].url = IndexUrl(r, "xpcshell", filename)
           /\ (filename = "index.json" /\ search \in {"", "?kind="}) =>
                 requests[1].url = IndexUrl(r, "xpcshell", filename)
           /\ (filename = "index.json" /\ search = "?kind=mochitest") =>
                 requests[1].url = IndexUrl(r, "mochitest", filename)

\* C10 witness: index.json with kind=mochitest was fetched from the
\* mochitest index.
C10_Witness ==
    /\ protocol = "https:" /\ filename = "index.json"
    /\ search = "?kind=mochitest" /\ pc = "done"
    /\ \E r \in Repositories :
          requests[1].url = IndexUrl(r, "mochitest", "index.json")

\* ------------------------------------------------ the locator's scan
\* The value a row holds in the column called name of the column list
\* names: undefined when the list has no such column.
Column(row, names, name) ==
    LET ks == {k \in DOMAIN names : names[k] = name}
    IN  IF ks = {} THEN Undefined
        ELSE LET k == CHOOSE m \in ks : \A n \in ks : m <= n
             IN  IF k \in DOMAIN row THEN row[k] ELSE Undefined

\* A row is a completed timings job of harness h with a task id.
Qualifies(row, names, h) ==
    /\ Column(row, names, "state") = "completed"
    /\ Column(row, names, "task_id") \notin {Null, Undefined, ""}
    /\ EndsWith(Column(row, names, "job_type_name"), h \o "-timings-rev")

\* The rows of a fixed listing by page and position in the page, and the
\* order in which page 1, then page 2, and so on list them.
Slots ==
    {s \in (DOMAIN listing) \X (1..MaxJobs) :
        s[2] <= Len(listing[s[1]].results)}
SlotRow(s) == listing[s[1]].results[s[2]]
ListedAfter(s, t) == s[1] > t[1] \/ (s[1] = t[1] /\ s[2] > t[2])

\* The task id of the last row of the whole listing that qualifies for
\* harness h under the column list names, null when there is none.
ListedTaskId(names, h) ==
    LET Q == {s \in Slots : Qualifies(SlotRow(s), names, h)}
    IN  IF Q = {} THEN Null
        ELSE LET last == CHOOSE s \in Q : \A t \in Q : ~ListedAfter(t, s)
             IN  Column(SlotRow(last), names, "task_id")

\* C11: against a server holding any chain of job-listing pages, once the
\* locator returned, each harness's entry is the task id of the last
\* qualifying row in the order page 1 rows, page 2 rows, and so on (rows
\* read under the column list the locator resolved): a qualifying job on
\* any page is reflected, and the rows of no page are left out.
C11_AllPagesScanned ==
    located.state = "fulfilled" =>
        \A h \in Harnesses :
            /\ located.value[h] = ListedTaskId(propertyNames, h)
            /\ (\E s \in Slots : Qualifies(SlotRow(s), propertyNames, h))
                  => located.value[h] # Null

\* C11 witness: page 1 lists a completed xpcshell timings job T2, page 2 a
\* completed xpcshell timings job T1 and the locator returned T1 for
\* xpcshell.
C11_Witness ==
    /\ Len(listing) = 2
    /\ listing[1].results = <<<<"a-xpcshell-timings-rev", "T2", "completed">>>>
    /\ listing[2].results = <<<<"a-xpcshell-timings-rev", "T1", "completed">>>>
    /\ located.state = "fulfilled"
    /\ located.value.xpcshell = "T1"

\* C12: once the locator returned, for each harness its entry is the task
\* id of the last row of allJobs that is completed, has a truthy task id
\* and a job-type name ending with the harness's timings suffix, and it
\* is null exactly when allJobs has no such row; the rows of the other
\* harness play no part.
C12_LastMatchWins ==
    located.state = "fulfilled" =>
        \A h \in Harnesses :
            LET Q == {i \in DOMAIN allJobs :
                         Qualifies(allJobs[i], propertyNames, h)}
            IN  /\ located.value[h] = Null <=> Q = {}
                /\ Q # {} =>
                      LET last == CHOOSE i \in Q : \A j \in Q : j <= i
                      IN  located.value[h] =
                              Column(allJobs[last], propertyNames, "task_id")

\* C12 witness: two completed xpcshell timings jobs T1 then T2 were listed
\* and the locator returned T2.
C12_Witness ==
    /\ allJobs = <<<<"a-xpcshell-timings-rev", "T1", "completed">>,
                   <<"a-xpcshell-timings-rev", "T2", "completed">>>>
    /\ propertyNames = <<"job_type_name", "task_id", "state">>
    /\ located.state = "fulfilled"
    /\ located.value = [xpcshell |-> "T2", mochitest |-> Null]

\* allJobs without its row i.
WithoutRow(i) ==
    SubSeq(allJobs, 1, i - 1) \o SubSeq(allJobs, i + 1, Len(allJobs))

\* C13: once the locator returned, every row whose state is not
\* "completed" or whose task id is missing has left no trace: the result is
\* the one the scan gives for the listing without that row, wherever the
\* row is listed, and every recorded task id is the task id of a completed
\* row.
C13_SkipsNotCompleted ==
    located.state = "fulfilled" =>
        /\ \A i \in DOMAIN allJobs :
              (\/ Column(allJobs[i], propertyNames, "state") # "completed"
               \/ Column(allJobs[i], propertyNames, "task_id")
                     \in {Null, Undefined})
              => located.value = FindTimingsJobs(WithoutRow(i), propertyNames)
        /\ \A h \in Harnesses :
              located.value[h] # Null =>
                 \E i \in DOMAIN allJobs :
                    /\ Column(allJobs[i], propertyNames, "state") = "completed"
                    /\ Column(allJobs[i], propertyNames, "task_id")
                          = located.value[h]

\* C13 witness: a completed xpcshell timings job T1 is followed by an
\* xpcshell timings job T2 that is still running, and the locator returned
\* T1.
C13_Witness ==
    /\ allJobs = <<<<"a-xpcshell-timings-rev", "T1", "completed">>,
                   <<"a-xpcshell-timings-rev", "T2", "running">>>>
    /\ propertyNames = <<"job_type_name", "task_id", "state">>
    /\ located.state = "fulfilled"
    /\ located.value.xpcshell = "T1"

\* C14: in every state at most one request of the call is in flight, the
\* request in flight is the last one issued, and every request issued
\* before it has completed.
C14_OneRequestInFlight ==
    /\ Cardinality(inflight) <= 1
    /\ \A i \in DOMAIN requests :
          /\ requests[i].outcome = "pending" <=> i \in inflight
          /\ i < Len(requests) => requests[i].outcome # "pending"

\* C14 witness: the mochitest fallback artifact is being fetched, as the
\* fourth request, after the push lookup, a job-listing page and the
\* xpcshell artifact fetch completed.
C14_Witness ==
    /\ pc = "fallback" /\ Len(requests) = 4 /\ inflight = {4}
    /\ \A i \in 1..3 : requests[i].outcome = "response"

\* The first page's column list of a fixed listing, empty when the page
\* has none.
FirstPageNames ==
    IF "job_property_names" \in DOMAIN listing[1]
    THEN listing[1].job_property_names ELSE <<>>

\* C15: once the locator returned, its result is the one the rows of the
\* whole listing give under the column list of the first page, whatever
\* the later pages deliver as column list and also when the first page's
\* list is empty or missing.
C15_FirstPageColumnsOnly ==
    located.state = "fulfilled" =>
        \A h \in Harnesses :
            located.value[h] = ListedTaskId(FirstPageNames, h)

\* The URL of page n of the job listing of a push.
PageUrl(id, n) ==
    "https://treeherder.mozilla.org/api/jobs/?push_id=" \o ToString(id)
        \o (IF n = 1 THEN "" ELSE "&page=" \o ToString(n))

\* Against a fixed listing the requests after the push lookup that go to
\* the job listing are those of pages 1, 2, ... in this order, each once,
\* never beyond the last page, and all of them once the locator returned.
PagedInOrder ==
    (pc # "start" /\ pushId # 0) =>
        \E n \in 1..Len(listing) :
            /\ \A k \in 1..n :
                  /\ 1 + k \in DOMAIN requests
                  /\ requests[1 + k].url = PageUrl(pushId, k)
            /\ \A i \in DOMAIN requests :
                  StartsWith(requests[i].url,
                             "https://treeherder.mozilla.org/api/jobs/")
                      => i \in 2..(1 + n)
            /\ located.state = "fulfilled" => n = Len(listing)

\* C16: the pages of the listing are fetched once each in link order and
\* none after the last page, and when every issued request eventually
\* completes the locator eventually stops paging and returns or throws.
C16_PaginationTerminates ==
    /\ []PagedInOrder
    /\ (located.state = "pending") ~> (located.state # "pending")

\* C16 witness: the locator returned after the two pages of a listing of
\* two pages were fetched.
C16_Witness ==
    /\ Len(listing) = 2 /\ located.state = "fulfilled"
    /\ PagesFetched = 2
    /\ requests[2].url = PageUrl(pushId, 1)
    /\ requests[3].url = PageUrl(pushId, 2)

\* The page is in local mode and the filename has no xpcshell-try- prefix.
LocalPlain ==
    /\ protocol # "https:"
    /\ (Len(filename) < 13 \/ SubSeq(filename, 1, 13) # "xpcshell-try-")

\* C17: in local mode, for a filename without the xpcshell-try- prefix,
\* every request goes to ./data/<filename>; a first fetch that is ok is
\* returned and is the only request; after a first fetch that threw or
\* was not ok a second fetch of the same URL is issued and its outcome is
\* the outcome of the call: its response, ok or not, or its rejection.
C17_LocalRefetch ==
    LocalPlain =>
        /\ Len(requests) <= 2
        /\ \A i \in DOMAIN requests : requests[i].url = "./data/" \o filename
        /\ (Len(requests) >= 1 /\ GotOk(1)) =>
              /\ Len(requests) = 1 /\ pc = "done"
              /\ result = Fulfilled([status |-> requests[1].status,
                                     ok |-> TRUE, statusText |-> "",
                                     id |-> 1])
        /\ (Len(requests) >= 1 /\ (requests[1].outcome = "threw" \/ GotNotOk(1)))
              => /\ Len(requests) = 2
                 /\ requests[2].outcome = "pending" => result = Pending
                 /\ requests[2].outcome = "response" =>
                       result = Fulfilled([status |-> requests[2].status,
                                           ok |-> IsOk(requests[2].status),
                                           statusText |-> "", id |-> 2])
                 /\ requests[2].outcome = "threw" =>
                       /\ result.state = "rejected"
                       /\ result.reason = NetworkError

\* C17 witness: the first fetch of ./data/foo.json was answered 404, the
\* second 200, and the call returned the second response.
C17_Witness ==
    /\ LocalPlain /\ filename = "foo.json" /\ pc = "done"
    /\ Len(requests) = 2 /\ requests[1].status = 404 /\ GotOk(2)
    /\ result.state = "fulfilled" /\ result.value.id = 2
    /\ result.value.ok

\* C19: on the try-revision path with requested harness mochitest at most
\* one artifact request is issued, it asks for the original filename under
\* the mochitest task id the locator returned (never the xpcshell task id,
\* never an xpcshell- filename), and when that fetch threw or delivered a
\* response that is not ok the call has returned the synthetic 404 without
\* another request, also when the locator found an xpcshell task id.
C19_NoReverseFallback ==
    (TryPath /\ Requested = "mochitest") =>
        /\ Cardinality(ArtifactRequests) <= 1
        /\ \A i \in ArtifactRequests :
              /\ located.state = "fulfilled"
              /\ requests[i].url =
                    QueueTask \o located.value.mochitest
                        \o "/runs/0/artifacts/public/mochitest-try-"
                        \o "0123456789abcdef0123456789abcdef01234567.json"
              /\ (requests[i].outcome = "threw" \/ GotNotOk(i)) =>
                    /\ pc = "done" /\ Len(requests) = i
                    /\ result.state = "fulfilled"
                    /\ Synthetic404(result.value)

\* C19 witness: the locator found the xpcshell task id T1 and the mochitest
\* task id T2, the mochitest artifact was answered 404 and the call
\* returned the synthetic 404 after that single artifact request.
C19_Witness ==
    /\ TryPath /\ Requested = "mochitest" /\ pc = "done"
    /\ located.state = "fulfilled"
    /\ located.value = [xpcshell |-> "T1", mochitest |-> "T2"]
    /\ \E i \in ArtifactRequests : GotNotOk(i)
    /\ Synthetic404(result.value)

\* C20: on the try-revision path with requested harness xpcshell, when the
\* fetch of the xpcshell artifact threw, the call has returned the
\* synthetic 404 carrying the error's message and that fetch is the only
\* artifact request, whether or not the locator found a mochitest task id;
\* a fallback request for the mochitest- filename is only ever issued when
\* the locator found no xpcshell task id or after an artifact response that
\* is not ok.
C20_ThrownArtifactNoFallback ==
    (TryPath /\ Requested = "xpcshell") =>
        \A i \in ArtifactRequests :
            /\ (/\ requests[i].url =
                      QueueTask \o located.value.xpcshell
                          \o "/runs/0/artifacts/public/" \o filename
                /\ requests[i].outcome = "threw")
               => /\ pc = "done"
                  /\ result = Fulfilled([status |-> 404, ok |-> FALSE,
                                         statusText |-> "Failed to fetch",
                                         id |-> 0])
                  /\ ArtifactRequests = {i}
            /\ requests[i].url =
                  QueueTask \o located.value.mochitest
                      \o "/runs/0/artifacts/public/" \o Renamed
               => \/ located.value.xpcshell = Null
                  \/ \E j \in ArtifactRequests : j < i /\ GotNotOk(j)

\* C20 witness: the locator found both task ids, the xpcshell artifact
\* fetch threw, and the call returned the synthetic 404.
C20_Witness ==
    /\ TryPath /\ Requested = "xpcshell" /\ pc = "done"
    /\ located.state = "fulfilled"
    /\ located.value = [xpcshell |-> "T1", mochitest |-> "T2"]
    /\ Len(requests) = 3 /\ requests[3].outcome = "threw"
    /\ result.state = "fulfilled" /\ result.value.status = 404

====
